---- MODULE Spec2Model ----
(***************************************************************************)
(* String Storage: the DatabaseManager of src/database.py over one SQLite  *)
(* table `strings`, called by concurrent request handlers.                 *)
(*                                                                         *)
(* Every call opens its own connection (get_connection).  SQLite in its    *)
(* default rollback-journal mode gives one writer at a time: the first     *)
(* writing statement of a connection takes the database write lock, keeps  *)
(* it until commit, and its changes become visible to other connections    *)
(* at commit.  A statement that finds the lock taken fails after the       *)
(* connection's busy timeout with OperationalError "database is locked".   *)
(***************************************************************************)
EXTENDS Integers, Sequences, FiniteSets, TLC

\* ---- bounds of the model ------------------------------------------------
MaxWrites == 3
MaxClock == 2

\* two concurrent request handlers, each running one call at a time
Procs == {"h1", "h2"}
\* index arguments of the calls
KeyOrder == <<"", "a", "b">>
Keys == {KeyOrder[i] : i \in 1 .. Len(KeyOrder)}
\* data arguments of the calls: Python strings as sequences of characters,
\* Nul the character U+0000 (a query string carries it as %00)
Nul == "NUL"
Values == {<<"x">>, <<"y", Nul, "y">>}
NoProc == "none"

VARIABLES
    strings,   \* committed rows of table strings
    seq,       \* AUTOINCREMENT high-water mark of strings.id
    now,       \* CURRENT_TIMESTAMP (whole seconds)
    lock,      \* connection (process) holding the database write lock
    pc,        \* position of each process in its DatabaseManager call
    req,       \* arguments of the call each process is running
    txn,       \* uncommitted table contents of each process's connection
    loc,       \* local variables of a running get_statistics
    ret,       \* what the step just taken returned to its caller (NoRet: nothing)
    lastMut,   \* history: last completed store/delete per key
    deleted,   \* history: some delete_string has removed the key's row
    writes     \* number of store_string / delete_string calls started

vars == <<strings, seq, now, lock, pc, req, txn, loc, ret, lastMut, deleted, writes>>

\* ---- the table and the SQL statements of src/database.py ----------------

\* CREATE TABLE strings: one row
Row(id, k, v, c, u) ==
    [id |-> id, index_key |-> k, data |-> v, created_at |-> c, updated_at |-> u]

\* rows WHERE index_key = k
RowsOf(tbl, k) == {r \in tbl : r.index_key = k}

\* mutant: the index_key column declared without UNIQUE
UniqueViolation_no_constraint(tbl, k) == FALSE

\* index_key TEXT UNIQUE: would inserting key k raise IntegrityError?
UniqueViolation(tbl, k) == RowsOf(tbl, k) # {}

\* mutant: the value bound as a C string, cut at its first NUL character
SqlInsert_c_string(tbl, id, k, v, t) ==
    tbl \cup {Row(id, k, SubSeq(v, 1, Cardinality({i \in 1 .. Len(v) :
                                        \A j \in 1 .. i : v[j] # Nul})), t, t)}

\* mutant: updated_at declared without a default (NULL, read as -1)
SqlInsert_no_updated_at(tbl, id, k, v, t) == tbl \cup {Row(id, k, v, t, -1)}

\* INSERT INTO strings (index_key, data) VALUES (?, ?)
\* id from AUTOINCREMENT, both timestamps DEFAULT CURRENT_TIMESTAMP
SqlInsert(tbl, id, k, v, t) == tbl \cup {Row(id, k, v, t, t)}

\* mutant: the UPDATE refreshes updated_at and leaves data as it was
SqlUpdate_no_data(tbl, k, v, t) ==
    {IF r.index_key = k THEN [r EXCEPT !.updated_at = t] ELSE r : r \in tbl}

\* mutant: the row replaced as a whole (INSERT OR REPLACE), created_at reset
SqlUpdate_replace(tbl, k, v, t) ==
    {IF r.index_key = k THEN [r EXCEPT !.data = v, !.created_at = t, !.updated_at = t]
                        ELSE r : r \in tbl}

\* mutant: the UPDATE sets created_at where it should set updated_at
SqlUpdate_created_at(tbl, k, v, t) ==
    {IF r.index_key = k THEN [r EXCEPT !.data = v, !.created_at = t] ELSE r : r \in tbl}

\* mutant: the existing row is left as it is (first writer wins)
SqlUpdate_ignore(tbl, k, v, t) == tbl

\* UPDATE strings SET data = ?, updated_at = CURRENT_TIMESTAMP WHERE index_key = ?
SqlUpdate(tbl, k, v, t) ==
    {IF r.index_key = k THEN [r EXCEPT !.data = v, !.updated_at = t] ELSE r : r \in tbl}

\* mutant: DELETE without its WHERE clause
SqlDelete_all(tbl, k) == {}

\* mutant: DELETE with its WHERE condition negated
SqlDelete_others(tbl, k) == {r \in tbl : r.index_key = k}

\* DELETE FROM strings WHERE index_key = ?
SqlDelete(tbl, k) == {r \in tbl : r.index_key # k}

\* LENGTH(data) of a TEXT value: the number of characters before the first
\* NUL character
SqlLength(v) ==
    IF \E i \in 1 .. Len(v) : v[i] = Nul
      THEN (CHOOSE i \in 1 .. Len(v) : v[i] = Nul /\ \A j \in 1 .. (i - 1) : v[j] # Nul) - 1
      ELSE Len(v)

\* SELECT COUNT(*) FROM strings WHERE index_key = ?
SqlCount(tbl, k) == Cardinality(RowsOf(tbl, k))

Max(a, b) == IF a >= b THEN a ELSE b

RECURSIVE MaxId(_)
MaxId(tbl) ==
    IF tbl = {} THEN 0
    ELSE LET r == CHOOSE x \in tbl : TRUE IN Max(r.id, MaxId(tbl \ {r}))

\* can process p take the database write lock?
CanLock(p) == lock \in {NoProc, p}

NoReq == [op |-> "none"]
NoRet == [call |-> NoReq, raised |-> FALSE, closed |-> TRUE, value |-> [none |-> TRUE]]
NoLoc == [total_count |-> 0, total_size |-> 0]

\* a call with arguments call returns value, having called conn.close()
Returned(call, value) == [call |-> call, raised |-> FALSE, closed |-> TRUE, value |-> value]

\* a call ends by raising sqlite3.OperationalError from cursor.execute or
\* conn.commit; the conn.close() further down is not run
Raised(call) ==
    [call |-> call, raised |-> TRUE, closed |-> FALSE,
     value |-> [error |-> "database is locked"]]

\* Keys are opaque to the code (compared for equality only), so the calls take
\* keys in a fixed order: any key some store/delete call has named, or the first
\* key none has named yet.
UsedKeys ==
    {k \in Keys : \/ lastMut[k].op # "none"
                  \/ \E p \in Procs : req[p].op \in {"store", "delete"} /\ req[p].index = k}
CallKeys ==
    UsedKeys \cup {KeyOrder[i] : i \in {j \in 1 .. Len(KeyOrder) :
                                         \A h \in 1 .. (j - 1) : KeyOrder[h] \in UsedKeys}}

Init ==
    /\ strings = {}
    /\ seq = 0
    /\ now = 0
    /\ lock = NoProc
    /\ pc = [p \in Procs |-> "idle"]
    /\ req = [p \in Procs |-> NoReq]
    /\ txn = [p \in Procs |-> {}]
    /\ loc = [p \in Procs |-> NoLoc]
    /\ ret = NoRet
    /\ lastMut = [k \in Keys |-> [op |-> "none"]]
    /\ deleted = [k \in Keys |-> FALSE]
    /\ writes = 0

Min(a, b) == IF a <= b THEN a ELSE b

\* CURRENT_TIMESTAMP as a statement may read it: the clock never runs backwards.
\* Timestamps are only compared, so a reading is the last one or the next value.
Clock == now .. Min(now + 1, MaxClock)

\* ---- store_string -------------------------------------------------------

\* mutant: length taken by SQL LENGTH, which stops at a NUL character
StoreResult_sql_length(action, code, index, data) ==
    [action |-> action, status_code |-> code, index |-> index, length |-> SqlLength(data)]

\* result dict of store_string
StoreResult(action, code, index, data) ==
    [action |-> action, status_code |-> code, index |-> index, length |-> Len(data)]

\* store_string: get_connection, the INSERT succeeds
store_string_insert(p, index, data, t) ==
    /\ pc[p] = "idle"
    /\ writes < MaxWrites
    /\ CanLock(p)
    /\ ~UniqueViolation(strings, index)
    /\ writes' = writes + 1
    /\ lock' = p
    /\ now' = t
    /\ req' = [req EXCEPT ![p] = [op |-> "store", index |-> index, data |-> data]]
    /\ txn' = [txn EXCEPT ![p] = SqlInsert(strings, seq + 1, index, data, t)]
    /\ pc' = [pc EXCEPT ![p] = "store_created"]
    /\ ret' = NoRet
    /\ UNCHANGED <<strings, seq, loc, lastMut, deleted>>

\* store_string: get_connection, the INSERT raises sqlite3.IntegrityError (the
\* connection keeps the write lock it took), except: UPDATE
store_string_update(p, index, data, t) ==
    /\ pc[p] = "idle"
    /\ writes < MaxWrites
    /\ CanLock(p)
    /\ UniqueViolation(strings, index)
    /\ writes' = writes + 1
    /\ lock' = p
    /\ now' = t
    /\ req' = [req EXCEPT ![p] = [op |-> "store", index |-> index, data |-> data]]
    /\ txn' = [txn EXCEPT ![p] = SqlUpdate(strings, index, data, t)]
    /\ pc' = [pc EXCEPT ![p] = "store_updated"]
    /\ ret' = NoRet
    /\ UNCHANGED <<strings, seq, loc, lastMut, deleted>>

\* store_string: the INSERT finds the database locked by another connection
store_string_locked(p, index, data) ==
    /\ pc[p] = "idle"
    /\ writes < MaxWrites
    /\ ~CanLock(p)
    /\ writes' = writes + 1
    /\ ret' = Raised([op |-> "store", index |-> index, data |-> data])
    /\ UNCHANGED <<strings, seq, now, lock, pc, req, txn, loc, lastMut, deleted>>

\* mutant: store_string without its except clause; the IntegrityError of the
\* INSERT reaches the caller and nothing is written
store_string_commit_no_except(p) ==
    /\ pc[p] \in {"store_created", "store_updated"}
    /\ strings' = IF pc[p] = "store_created" THEN txn[p] ELSE strings
    /\ seq' = Max(seq, MaxId(txn[p]))
    /\ lock' = NoProc
    /\ txn' = [txn EXCEPT ![p] = {}]
    /\ IF pc[p] = "store_created"
         THEN /\ ret' = Returned(req[p], StoreResult("created", 201, req[p].index, req[p].data))
              /\ lastMut' = [lastMut EXCEPT ![req[p].index] =
                               [op |-> "store", data |-> req[p].data, action |-> "created"]]
         ELSE /\ ret' = [Raised(req[p]) EXCEPT !.value =
                               [error |-> "UNIQUE constraint failed: strings.index_key"]]
              /\ UNCHANGED lastMut
    /\ req' = [req EXCEPT ![p] = NoReq]
    /\ pc' = [pc EXCEPT ![p] = "idle"]
    /\ UNCHANGED <<now, loc, deleted, writes>>

\* store_string: conn.commit(), conn.close(), return result
store_string_commit(p) ==
    /\ pc[p] \in {"store_created", "store_updated"}
    /\ strings' = txn[p]
    /\ seq' = Max(seq, MaxId(txn[p]))
    /\ lock' = NoProc
    /\ txn' = [txn EXCEPT ![p] = {}]
    /\ LET action == IF pc[p] = "store_created" THEN "created" ELSE "updated"
           code == IF pc[p] = "store_created" THEN 201 ELSE 200
       IN /\ ret' = Returned(req[p], StoreResult(action, code, req[p].index, req[p].data))
          /\ lastMut' = [lastMut EXCEPT ![req[p].index] =
                           [op |-> "store", data |-> req[p].data, action |-> action]]
    /\ req' = [req EXCEPT ![p] = NoReq]
    /\ pc' = [pc EXCEPT ![p] = "idle"]
    /\ UNCHANGED <<now, loc, deleted, writes>>

\* ---- get_string ---------------------------------------------------------

\* get_string: SELECT ... WHERE index_key = ?, fetchone(), the returned dict / None
GetResult(tbl, index) ==
    IF RowsOf(tbl, index) = {}
      THEN [found |-> FALSE]
      ELSE LET row == CHOOSE r \in RowsOf(tbl, index) : TRUE
           IN [found |-> TRUE, index |-> row.index_key, data |-> row.data,
               created_at |-> row.created_at, updated_at |-> row.updated_at]

get_string(p, index) ==
    /\ pc[p] = "idle"
    /\ ret' = Returned([op |-> "get", index |-> index], GetResult(strings, index))
    /\ UNCHANGED <<strings, seq, now, lock, pc, req, txn, loc, lastMut, deleted, writes>>

\* ---- delete_string ------------------------------------------------------

\* delete_string: SELECT COUNT(*); count == 0 -> close, return False
delete_string_count(p, index) ==
    /\ pc[p] = "idle"
    /\ writes < MaxWrites
    /\ writes' = writes + 1
    /\ IF SqlCount(strings, index) = 0
         THEN /\ ret' = Returned([op |-> "delete", index |-> index], [ok |-> FALSE])
              /\ lastMut' = [lastMut EXCEPT ![index] = [op |-> "delete"]]
              /\ UNCHANGED <<pc, req>>
         ELSE /\ pc' = [pc EXCEPT ![p] = "delete_delete"]
              /\ req' = [req EXCEPT ![p] = [op |-> "delete", index |-> index]]
              /\ ret' = NoRet
              /\ UNCHANGED <<lastMut>>
    /\ UNCHANGED <<strings, seq, now, lock, txn, loc, deleted>>

\* delete_string: DELETE FROM strings WHERE index_key = ?
delete_string_delete(p) ==
    /\ pc[p] = "delete_delete"
    /\ CanLock(p)
    /\ lock' = p
    /\ txn' = [txn EXCEPT ![p] = SqlDelete(strings, req[p].index)]
    /\ pc' = [pc EXCEPT ![p] = "delete_commit"]
    /\ ret' = NoRet
    /\ UNCHANGED <<strings, seq, now, req, loc, lastMut, deleted, writes>>

\* delete_string: the DELETE finds the database locked by another connection
delete_string_locked(p) ==
    /\ pc[p] = "delete_delete"
    /\ ~CanLock(p)
    /\ ret' = Raised(req[p])
    /\ req' = [req EXCEPT ![p] = NoReq]
    /\ pc' = [pc EXCEPT ![p] = "idle"]
    /\ UNCHANGED <<strings, seq, now, lock, txn, loc, lastMut, deleted, writes>>

\* delete_string: conn.commit(), conn.close(), return True
delete_string_commit(p) ==
    /\ pc[p] = "delete_commit"
    /\ strings' = txn[p]
    /\ lock' = NoProc
    /\ txn' = [txn EXCEPT ![p] = {}]
    /\ ret' = Returned(req[p], [ok |-> TRUE])
    /\ lastMut' = [lastMut EXCEPT ![req[p].index] = [op |-> "delete"]]
    /\ deleted' = [deleted EXCEPT ![req[p].index] =
                     @ \/ RowsOf(strings, req[p].index) # {}]
    /\ req' = [req EXCEPT ![p] = NoReq]
    /\ pc' = [pc EXCEPT ![p] = "idle"]
    /\ UNCHANGED <<seq, now, loc, writes>>

\* ---- list_all_indices ---------------------------------------------------

\* ORDER BY created_at DESC: every order of the rows with created_at descending
\* (SQL leaves the order of rows with equal created_at open)
RECURSIVE OrderByCreatedDesc(_)
OrderByCreatedDesc(tbl) ==
    IF tbl = {} THEN {<<>>}
    ELSE UNION { {<<r>> \o s : s \in OrderByCreatedDesc(tbl \ {r})} :
                 r \in {x \in tbl : \A y \in tbl : y.created_at <= x.created_at} }

\* one entry of the list: index_key, created_at, updated_at, LENGTH(data)
IndexEntry(row) ==
    [index |-> row.index_key, created_at |-> row.created_at,
     updated_at |-> row.updated_at, data_length |-> SqlLength(row.data)]

\* the list built from the fetched rows
IndexList(rows) == [i \in 1 .. Len(rows) |-> IndexEntry(rows[i])]

list_all_indices(p) ==
    /\ pc[p] = "idle"
    /\ \E rows \in OrderByCreatedDesc(strings) :
         ret' = Returned([op |-> "list"], [indices |-> IndexList(rows)])
    /\ UNCHANGED <<strings, seq, now, lock, pc, req, txn, loc, lastMut, deleted, writes>>

\* ---- get_statistics -----------------------------------------------------

\* SUM(LENGTH(data)), NULL read as 0
RECURSIVE SumLength(_)
SumLength(tbl) ==
    IF tbl = {} THEN 0
    ELSE LET r == CHOOSE x \in tbl : TRUE IN SqlLength(r.data) + SumLength(tbl \ {r})

\* the stats dict
StatsResult(total_count, total_size, rows) ==
    IF rows = <<>>
      THEN [total_records |-> total_count, total_data_size |-> total_size,
            has_latest |-> FALSE]
      ELSE [total_records |-> total_count, total_data_size |-> total_size,
            has_latest |-> TRUE,
            latest_record |-> [index |-> rows[1].index_key,
                               created_at |-> rows[1].created_at]]

\* history kept with a get_statistics call: the number of store/delete calls
\* started so far when no store/delete call is under way as it begins, else -1
StatsBegan(p) ==
    IF \A q \in Procs \ {p} : pc[q] \in {"idle", "stats_size", "stats_latest"}
      THEN writes ELSE -1

\* get_statistics: SELECT COUNT(*) FROM strings
get_statistics_count(p) ==
    /\ pc[p] = "idle"
    /\ req' = [req EXCEPT ![p] = [op |-> "stats", began |-> StatsBegan(p)]]
    /\ loc' = [loc EXCEPT ![p].total_count = Cardinality(strings)]
    /\ pc' = [pc EXCEPT ![p] = "stats_size"]
    /\ ret' = NoRet
    /\ UNCHANGED <<strings, seq, now, lock, txn, lastMut, deleted, writes>>

\* get_statistics: SELECT SUM(LENGTH(data)) FROM strings
get_statistics_size(p) ==
    /\ pc[p] = "stats_size"
    /\ loc' = [loc EXCEPT ![p].total_size = SumLength(strings)]
    /\ req' = [req EXCEPT ![p].began = IF @ = writes THEN @ ELSE -1]
    /\ pc' = [pc EXCEPT ![p] = "stats_latest"]
    /\ ret' = NoRet
    /\ UNCHANGED <<strings, seq, now, lock, txn, lastMut, deleted, writes>>

\* get_statistics: SELECT ... ORDER BY created_at DESC LIMIT 1, close, return stats
get_statistics_latest(p) ==
    /\ pc[p] = "stats_latest"
    /\ \E rows \in OrderByCreatedDesc(strings) :
         ret' = Returned([op |-> "stats", quiet |-> req[p].began = writes],
                         StatsResult(loc[p].total_count, loc[p].total_size, rows))
    /\ loc' = [loc EXCEPT ![p] = NoLoc]
    /\ req' = [req EXCEPT ![p] = NoReq]
    /\ pc' = [pc EXCEPT ![p] = "idle"]
    /\ UNCHANGED <<strings, seq, now, lock, txn, lastMut, deleted, writes>>

Next ==
    \/ \E p \in Procs, index \in CallKeys, data \in Values, t \in Clock :
          store_string_insert(p, index, data, t)
    \/ \E p \in Procs, index \in CallKeys, data \in Values, t \in Clock :
          store_string_update(p, index, data, t)
    \/ \E p \in Procs, index \in CallKeys, data \in Values : store_string_locked(p, index, data)
    \/ \E p \in Procs : store_string_commit(p)
    \/ \E p \in Procs, index \in CallKeys : get_string(p, index)
    \/ \E p \in Procs, index \in CallKeys : delete_string_count(p, index)
    \/ \E p \in Procs : delete_string_delete(p)
    \/ \E p \in Procs : delete_string_locked(p)
    \/ \E p \in Procs : delete_string_commit(p)
    \/ \E p \in Procs : list_all_indices(p)
    \/ \E p \in Procs : get_statistics_count(p)
    \/ \E p \in Procs : get_statistics_size(p)
    \/ \E p \in Procs : get_statistics_latest(p)

Spec == Init /\ [][Next]_vars

\* ---- faults of conn.commit() ------------------------------------------

\* store_string: conn.commit() raises sqlite3.OperationalError (disk full, I/O
\* error, a reader's lock outlasting the busy timeout).  Nothing is committed;
\* the connection is not closed by store_string and rolls back, releasing the
\* write lock, when the exception that holds its frame is dropped.
store_string_commit_fault(p) ==
    /\ pc[p] \in {"store_created", "store_updated"}
    /\ lock' = NoProc
    /\ txn' = [txn EXCEPT ![p] = {}]
    /\ ret' = Raised(req[p])
    /\ req' = [req EXCEPT ![p] = NoReq]
    /\ pc' = [pc EXCEPT ![p] = "idle"]
    /\ UNCHANGED <<strings, seq, now, loc, lastMut, deleted, writes>>

\* mutant: the DELETE takes effect although conn.commit() raises
delete_string_commit_fault_partial(p) ==
    /\ pc[p] = "delete_commit"
    /\ strings' = txn[p]
    /\ lock' = NoProc
    /\ txn' = [txn EXCEPT ![p] = {}]
    /\ ret' = Raised(req[p])
    /\ req' = [req EXCEPT ![p] = NoReq]
    /\ pc' = [pc EXCEPT ![p] = "idle"]
    /\ UNCHANGED <<seq, now, loc, lastMut, deleted, writes>>

\* delete_string: conn.commit() raises sqlite3.OperationalError
delete_string_commit_fault(p) ==
    /\ pc[p] = "delete_commit"
    /\ lock' = NoProc
    /\ txn' = [txn EXCEPT ![p] = {}]
    /\ ret' = Raised(req[p])
    /\ req' = [req EXCEPT ![p] = NoReq]
    /\ pc' = [pc EXCEPT ![p] = "idle"]
    /\ UNCHANGED <<strings, seq, now, loc, lastMut, deleted, writes>>

\* ---- the routes of src/routes.py --------------------------------------

\* request.args.get(name): the parameter's value, or None when it is absent
Absent == [present |-> FALSE]
Some(v) == [present |-> TRUE, value |-> v]

Routes == {"store", "get", "delete"}

\* query strings of /store: index a key or absent, data a value, empty or absent
StoreRequests ==
    {[index |-> i, data |-> d] :
        i \in {Some(k) : k \in CallKeys} \cup {Absent},
        d \in {Some(v) : v \in Values \cup {<<>>}} \cup {Absent}}

\* query strings of /get and /delete
IndexRequests == {[index |-> i] : i \in {Some(k) : k \in CallKeys} \cup {Absent}}

Requests(route) == IF route = "store" THEN StoreRequests ELSE IndexRequests

\* mutant: data checked like index, against None only
ValidStore_data_not_none(args) ==
    /\ args.index.present
    /\ args.data.present

\* store_string route: index is not None, and not (not data)
ValidStore(args) ==
    /\ args.index.present
    /\ args.data.present /\ args.data.value # <<>>

\* get_string and delete_string routes: index is not None
ValidIndex(args) == args.index.present

Valid(route, args) == IF route = "store" THEN ValidStore(args) ELSE ValidIndex(args)

\* create_error_response(..., 400), returned before db_manager is called
Rejected(route, args) ==
    [call |-> [op |-> "rejected", route |-> route, args |-> args],
     raised |-> FALSE, closed |-> TRUE, value |-> [error |-> "parameter"]]

\* a route returns 400 for its request
route_rejects(p, route, args) ==
    /\ pc[p] = "idle"
    /\ ~Valid(route, args)
    /\ ret' = Rejected(route, args)
    /\ UNCHANGED <<strings, seq, now, lock, pc, req, txn, loc, lastMut, deleted, writes>>

\* mutant: the /delete route answering 200 whatever delete_string returned
Status_delete_ok(r) ==
    IF r.call.op = "rejected" THEN 400
    ELSE IF r.raised THEN 500
    ELSE IF r.call.op = "store" THEN r.value.status_code
    ELSE IF r.call.op = "get" THEN (IF r.value.found THEN 200 ELSE 404)
    ELSE 200

\* status code of the response a route builds from what db_manager did
Status(r) ==
    IF r.call.op = "rejected" THEN 400
    ELSE IF r.raised THEN 500
    ELSE IF r.call.op = "store" THEN r.value.status_code
    ELSE IF r.call.op = "get" THEN (IF r.value.found THEN 200 ELSE 404)
    ELSE IF r.call.op = "delete" THEN (IF r.value.ok THEN 200 ELSE 404)
    ELSE 200

\* the /store, /get and /delete routes over the DatabaseManager, with faults
\* of conn.commit()
ApiNext ==
    \/ \E p \in Procs, route \in Routes : \E args \in Requests(route) :
          route_rejects(p, route, args)
    \/ \E p \in Procs, args \in StoreRequests, t \in Clock :
          ValidStore(args) /\ store_string_insert(p, args.index.value, args.data.value, t)
    \/ \E p \in Procs, args \in StoreRequests, t \in Clock :
          ValidStore(args) /\ store_string_update(p, args.index.value, args.data.value, t)
    \/ \E p \in Procs, args \in StoreRequests :
          ValidStore(args) /\ store_string_locked(p, args.index.value, args.data.value)
    \/ \E p \in Procs : store_string_commit(p)
    \/ \E p \in Procs : store_string_commit_fault(p)
    \/ \E p \in Procs, args \in IndexRequests :
          ValidIndex(args) /\ get_string(p, args.index.value)
    \/ \E p \in Procs, args \in IndexRequests :
          ValidIndex(args) /\ delete_string_count(p, args.index.value)
    \/ \E p \in Procs : delete_string_delete(p)
    \/ \E p \in Procs : delete_string_locked(p)
    \/ \E p \in Procs : delete_string_commit(p)
    \/ \E p \in Procs : delete_string_commit_fault(p)

ApiSpec == Init /\ [][ApiNext]_vars

\* ---- properties --------------------------------------------------------

\* some store_string / delete_string call on key k has started and not returned
Running(k) == \E p \in Procs : req[p].op \in {"store", "delete"} /\ req[p].index = k
RunningStore(k) == \E p \in Procs : req[p].op = "store" /\ req[p].index = k

\* C1: in every reachable state the table holds at most one row per key,
\* whatever store_string and delete_string calls run concurrently.
C1_KeysUnique ==
    \A r1, r2 \in strings : r1.index_key = r2.index_key => r1 = r2

\* C1 witness: a store_string and a delete_string on the same existing key are
\* both under way.
C1_Witness ==
    \E p, q \in Procs :
        /\ pc[p] = "store_updated" /\ pc[q] = "delete_delete"
        /\ req[p].index = req[q].index
        /\ RowsOf(strings, req[p].index) # {}

\* C2: once every store_string call on a key has returned, with at least one of
\* them committed and no delete_string having removed the key, the table holds
\* exactly one row for the key, and its value is the one passed by the caller
\* that committed last.
C2_OneRowAfterContention ==
    \A k \in Keys :
        (~RunningStore(k) /\ lastMut[k].op = "store" /\ ~deleted[k])
            => /\ Cardinality(RowsOf(strings, k)) = 1
               /\ \A r \in RowsOf(strings, k) : r.data = lastMut[k].data

\* C2 witness: two store_string calls on one new key have both returned, the
\* first having inserted the row and the second having overwritten it.
C2_Witness ==
    \E k \in Keys :
        /\ ~deleted[k] /\ ~Running(k)
        /\ writes = 2 /\ seq = 1
        /\ ret.call = [op |-> "store", index |-> k, data |-> <<"y", Nul, "y">>]
        /\ ~ret.raised /\ ret.value.action = "updated"
        /\ RowsOf(strings, k) = {Row(1, k, <<"y", Nul, "y">>, 0, 1)}

\* C3: get_string(key) returns a record exactly when the last completed
\* store_string / delete_string call on the key was a store_string, and then
\* with that call's value; otherwise it returns not-found.
C3_GetReflectsLastWrite ==
    ret.call.op = "get" =>
        LET last == lastMut[ret.call.index]
        IN /\ ret.value.found <=> last.op = "store"
           /\ ret.value.found => ret.value.data = last.data /\ ret.value.index = ret.call.index

\* C3 witness: get_string finds a key that was deleted and then stored again.
C3_Witness ==
    /\ ret.call.op = "get" /\ ret.value.found
    /\ deleted[ret.call.index]

\* C4: get_string(key) after a store_string(key, value) that created the row
\* returns value unchanged, with created_at equal to updated_at.
C4_RoundTrip ==
    (ret.call.op = "get" /\ lastMut[ret.call.index].op = "store"
                        /\ lastMut[ret.call.index].action = "created")
        => /\ ret.value.found
           /\ ret.value.data = lastMut[ret.call.index].data
           /\ ret.value.created_at = ret.value.updated_at

\* C4 witness: get_string returns the three-character value, NUL included, of
\* a row that a store_string has just created at a later clock reading.
C4_Witness ==
    /\ ret.call.op = "get" /\ ret.value.found
    /\ lastMut[ret.call.index].action = "created"
    /\ ret.value.data = <<"y", Nul, "y">> /\ ret.value.created_at = 1

\* the committing store_string call of process p went through the update path
StoreUpdates(p) == pc[p] = "store_updated" /\ pc'[p] = "idle" /\ ~ret'.raised
\* the committing store_string call of process p went through the insert path
StoreCreates(p) == pc[p] = "store_created" /\ pc'[p] = "idle" /\ ~ret'.raised
\* the delete_string call of process p commits
DeleteCommits(p) == pc[p] = "delete_commit" /\ pc'[p] = "idle" /\ ~ret'.raised

\* C5: store_string(key, v2) on a key that has a row replaces the row's value
\* by v2 and sets updated_at to the current time, and leaves the row's
\* created_at (and identity) as the first insert set them, at every overwrite.
C5_UpdatePreservesCreation ==
    [][\A p \in Procs : StoreUpdates(p) =>
          \E old \in strings : \E new \in strings' :
              /\ RowsOf(strings, req[p].index) = {old}
              /\ RowsOf(strings', req[p].index) = {new}
              /\ new.data = req[p].data
              /\ new.updated_at = now
              /\ new.created_at = old.created_at
              /\ new.id = old.id]_vars

\* C5 witness: a row created at time 0 has been overwritten twice, last at
\* time 2, and still carries created_at 0.
C5_Witness ==
    /\ ret.call.op = "store" /\ ~ret.raised /\ ret.value.action = "updated"
    /\ writes = 3 /\ seq = 1
    /\ \E r \in strings : r.index_key = ret.call.index /\ r.created_at = 0
                          /\ r.updated_at = 2 /\ r.data = ret.call.data

\* C6: a store_string call that returns reports 'created' exactly when its
\* commit added one new row for its key and 'updated' exactly when its commit
\* overwrote the one existing row of its key (never zero rows), and the length
\* it returns is the length of the value it was given.
C6_StoreReportsBranch ==
    [][\A p \in Procs :
          /\ StoreCreates(p) =>
                /\ ret'.value.action = "created"
                /\ RowsOf(strings, req[p].index) = {}
                /\ \E r \in strings' : /\ r \notin strings
                                        /\ strings' = strings \cup {r}
                                        /\ r.index_key = req[p].index
                                        /\ r.data = req[p].data
          /\ StoreUpdates(p) =>
                /\ ret'.value.action = "updated"
                /\ \E r \in strings :
                      /\ r.index_key = req[p].index
                      /\ strings' = (strings \ {r}) \cup
                                       {[r EXCEPT !.data = req[p].data, !.updated_at = now]}
          /\ (StoreCreates(p) \/ StoreUpdates(p)) =>
                /\ ret'.value.length = Len(req[p].data)
                /\ ret'.value.index = req[p].index]_vars

\* C6 witness: a store_string returns 'updated' with length 3 while a
\* delete_string on the same key is waiting between its check and its DELETE.
C6_Witness ==
    /\ ret.call.op = "store" /\ ~ret.raised
    /\ ret.value.action = "updated" /\ ret.value.length = 3
    /\ \E q \in Procs : pc[q] = "delete_delete" /\ req[q].index = ret.call.index

\* C7: a step changes the rows of a key only when it is the commit of a
\* store_string or delete_string call on that key; rows of other keys keep
\* key, value, created_at and updated_at, and get_string, list_all_indices and
\* get_statistics leave the whole table unchanged.
C7_Frame ==
    [][\A k \in Keys :
          RowsOf(strings', k) # RowsOf(strings, k) =>
              \E p \in Procs : /\ (StoreCreates(p) \/ StoreUpdates(p) \/ DeleteCommits(p))
                                /\ req[p].index = k]_vars

\* C7 witness: a delete_string has just removed its key's row while the
\* row of another key is in the table.
C7_Witness ==
    /\ ret.call.op = "delete" /\ ~ret.raised /\ ret.value.ok
    /\ deleted[ret.call.index]
    /\ \E r \in strings : r.index_key # ret.call.index

\* C8: delete_string(key) that finds a row goes on to its DELETE and, when it
\* returns, returns true with no row left for key; one that finds no row
\* returns false at once and leaves the table unchanged.  So it returns false
\* for a key never stored and for a key whose last completed store/delete
\* call was a delete.
C8_DeleteResult ==
    [][\A p \in Procs :
          /\ \A k \in Keys : delete_string_count(p, k) =>
                /\ RowsOf(strings, k) # {} => pc'[p] = "delete_delete"
                /\ RowsOf(strings, k) = {} =>
                      /\ pc'[p] = "idle" /\ ~ret'.raised /\ ~ret'.value.ok
                      /\ strings' = strings
                /\ lastMut[k].op \in {"none", "delete"} => RowsOf(strings, k) = {}
          /\ DeleteCommits(p) =>
                /\ ~ret'.raised /\ ret'.value.ok
                /\ RowsOf(strings', req[p].index) = {}]_vars

\* C8 witness: a delete_string returns false for a key that an earlier
\* delete_string removed.
C8_Witness ==
    /\ ret.call.op = "delete" /\ ~ret.raised /\ ~ret.value.ok
    /\ deleted[ret.call.index]

\* C9: every row, committed or written in an open transaction, has
\* created_at <= updated_at.
C9_CreatedBeforeUpdated ==
    /\ \A r \in strings : r.created_at <= r.updated_at
    /\ \A p \in Procs : \A r \in txn[p] : r.created_at <= r.updated_at

\* C9 witness: a row created after time 0 has been overwritten at a later
\* time, next to the row of another key.
C9_Witness ==
    \E r, o \in strings : /\ 0 < r.created_at /\ r.created_at < r.updated_at
                           /\ o.index_key # r.index_key

\* C10: list_all_indices returns one entry per row of the table and no other
\* (none missing, none twice, no deleted key), each with the row's key,
\* created_at, updated_at and the length of its value and without the value,
\* in descending order of created_at.
C10_ListAll ==
    ret.call.op = "list" =>
        LET indices == ret.value.indices
            EntryOf(r) == [index |-> r.index_key, created_at |-> r.created_at,
                           updated_at |-> r.updated_at, data_length |-> Len(r.data)]
        IN /\ Len(indices) = Cardinality(strings)
           /\ \A r \in strings : \E i \in 1 .. Len(indices) : indices[i] = EntryOf(r)
           /\ \A i \in 1 .. Len(indices) :
                 /\ \E r \in strings : indices[i] = EntryOf(r)
                 /\ "data" \notin DOMAIN indices[i]
           /\ \A i, j \in 1 .. Len(indices) :
                 /\ i < j => indices[i].created_at >= indices[j].created_at
                 /\ i # j => indices[i].index # indices[j].index

\* C10 witness: list_all_indices returns data_length 1 for the row of a key
\* whose stored value has three characters, the second of them NUL.
C10_Witness ==
    /\ ret.call.op = "list"
    /\ \E r \in strings : \E i \in 1 .. Len(ret.value.indices) :
          /\ r.data = <<"y", Nul, "y">>
          /\ ret.value.indices[i].index = r.index_key
          /\ ret.value.indices[i].data_length = 1

\* What holds of list_all_indices: the same with data_length the number of
\* characters of the value before its first NUL character.
ListAllSqlLength ==
    ret.call.op = "list" =>
        LET indices == ret.value.indices
            EntryOf(r) == [index |-> r.index_key, created_at |-> r.created_at,
                           updated_at |-> r.updated_at,
                           data_length |-> Cardinality({i \in 1 .. Len(r.data) :
                                              \A j \in 1 .. i : r.data[j] # Nul})]
        IN /\ Len(indices) = Cardinality(strings)
           /\ \A r \in strings : \E i \in 1 .. Len(indices) : indices[i] = EntryOf(r)
           /\ \A i \in 1 .. Len(indices) :
                 /\ \E r \in strings : indices[i] = EntryOf(r)
                 /\ "data" \notin DOMAIN indices[i]
           /\ \A i, j \in 1 .. Len(indices) :
                 /\ i < j => indices[i].created_at >= indices[j].created_at
                 /\ i # j => indices[i].index # indices[j].index

\* three keys were inserted at times 0, 1, 2 ("", a, b in that order) and
\* list_all_indices returns them newest first: b, a, "".
ListAllNewestFirst ==
    /\ ret.call.op = "list"
    /\ Len(ret.value.indices) = 3
    /\ [i \in 1 .. 3 |-> ret.value.indices[i].index] = <<"b", "a", "">>
    /\ [i \in 1 .. 3 |-> ret.value.indices[i].created_at] = <<2, 1, 0>>
    /\ \A r \in strings : r.id = IF r.index_key = "" THEN 1
                                   ELSE IF r.index_key = "a" THEN 2 ELSE 3

\* get_statistics has just returned, and no store_string / delete_string call
\* was under way or started while it ran
QuietStats == ret.call.op = "stats" /\ ret.call.quiet

RECURSIVE SumOfLen(_)
SumOfLen(tbl) ==
    IF tbl = {} THEN 0
    ELSE LET r == CHOOSE x \in tbl : TRUE IN Len(r.data) + SumOfLen(tbl \ {r})

RECURSIVE SumOfNulPrefix(_)
SumOfNulPrefix(tbl) ==
    IF tbl = {} THEN 0
    ELSE LET r == CHOOSE x \in tbl : TRUE
         IN Cardinality({i \in 1 .. Len(r.data) : \A j \in 1 .. i : r.data[j] # Nul})
              + SumOfNulPrefix(tbl \ {r})

\* C11: get_statistics on a quiescent table returns total_records = the number
\* of rows and total_data_size = the sum of the lengths of the rows' values
\* (0 for the empty table), and omits latest_record exactly when the table is
\* empty.
C11_StatsAccurate ==
    QuietStats =>
        /\ ret.value.total_records = Cardinality(strings)
        /\ ret.value.total_data_size = SumOfLen(strings)
        /\ ret.value.has_latest <=> strings # {}

\* C11 witness: get_statistics on a quiescent table of two rows, one value of
\* one character and one of three characters with a NUL, returns
\* total_data_size 2.
C11_Witness ==
    /\ QuietStats
    /\ ret.value.total_records = 2 /\ ret.value.total_data_size = 2
    /\ {r.data : r \in strings} = Values

\* What holds of get_statistics on a quiescent table: the same with each
\* value counted up to its first NUL character.
StatsSqlLength ==
    QuietStats =>
        /\ ret.value.total_records = Cardinality(strings)
        /\ ret.value.total_data_size = SumOfNulPrefix(strings)
        /\ ret.value.has_latest <=> strings # {}

\* get_statistics on the empty quiescent table, after a row was stored and
\* deleted, returns 0, 0 and no latest_record.
StatsOfEmptiedTable ==
    /\ QuietStats /\ strings = {} /\ seq = 1
    /\ ret.value.total_records = 0 /\ ret.value.total_data_size = 0
    /\ ~ret.value.has_latest

\* C12: on a non-empty quiescent table latest_record of get_statistics is the
\* key and created_at of the record created last, and it is the first entry of
\* what list_all_indices returns in that table state; so after storing a and
\* then b into the empty table it is b.
C12_LatestRecord ==
    (QuietStats /\ strings # {}) =>
        /\ ret.value.has_latest
        /\ \E r \in strings :
              /\ \A o \in strings : o.id <= r.id
              /\ ret.value.latest_record = [index |-> r.index_key, created_at |-> r.created_at]
        /\ \A rows \in OrderByCreatedDesc(strings) :
              IndexList(rows)[1].index = ret.value.latest_record.index

\* C12 witness: two keys were stored one after the other within one second
\* and get_statistics on the quiescent table names the first of them as
\* latest_record.
C12_Witness ==
    /\ QuietStats /\ writes = 2 /\ seq = 2
    /\ \A r \in strings : r.created_at = 0 /\ r.updated_at = 0
    /\ \E r \in strings : r.id = 1 /\ ret.value.latest_record.index = r.index_key

\* What holds of latest_record on a non-empty quiescent table: it is the key
\* and created_at of a row with the greatest created_at, the first entry of
\* one of the orders list_all_indices may return.
LatestHasGreatestCreatedAt ==
    (QuietStats /\ strings # {}) =>
        /\ ret.value.has_latest
        /\ \E r \in strings :
              /\ \A o \in strings : o.created_at <= r.created_at
              /\ ret.value.latest_record = [index |-> r.index_key, created_at |-> r.created_at]
        /\ \E rows \in OrderByCreatedDesc(strings) :
              IndexList(rows)[1].index = ret.value.latest_record.index

\* two keys were stored at different seconds and get_statistics on the
\* quiescent table names the second as latest_record.
LatestOfDistinctSeconds ==
    /\ QuietStats /\ writes = 2 /\ seq = 2
    /\ \E r \in strings : r.id = 2 /\ r.created_at = 1
                          /\ ret.value.latest_record.index = r.index_key

\* C13: when store_string calls on one key overlap, each commit leaves the
\* key's row as the committing call wrote it: its value, and its updated_at,
\* no earlier than the one it replaces; created_at and id stay those of the
\* one insert that created the row.  Nothing else changes the row (C7), so
\* after both calls have returned the row is that of the last commit.
C13_LastCommitWins ==
    [][\A p \in Procs : (StoreCreates(p) \/ StoreUpdates(p)) =>
          \E new \in txn[p] :
              /\ RowsOf(strings', req[p].index) = {new}
              /\ new.index_key = req[p].index
              /\ new.data = req[p].data
              /\ StoreCreates(p) => /\ RowsOf(strings, req[p].index) = {}
                                    /\ new.created_at = new.updated_at
              /\ StoreUpdates(p) =>
                    \E old \in strings :
                        /\ RowsOf(strings, req[p].index) = {old}
                        /\ new.created_at = old.created_at /\ new.id = old.id
                        /\ new.updated_at >= old.updated_at]_vars

\* C13 witness: of two store_string calls on one new key the one that
\* committed last passed "x" at time 1; the row holds "x" and updated_at 1,
\* with the created_at 0 of the insert by the other.
C13_Witness ==
    /\ ret.call.op = "store" /\ ~ret.raised /\ ret.value.action = "updated"
    /\ ret.call.data = <<"x">> /\ writes = 2
    /\ RowsOf(strings, ret.call.index) = {Row(1, ret.call.index, <<"x">>, 0, 1)}
    /\ lastMut[ret.call.index].data = <<"x">>

\* C14: a store_string call whose INSERT hits the uniqueness constraint goes
\* on to the UPDATE holding the write lock, and the call ends by returning
\* 'updated' with its key's row written, whatever other store_string and
\* delete_string calls on the key are under way; no call ends by raising the
\* constraint violation.
C14_ConstraintNotSurfaced ==
    [][\A p \in Procs :
          /\ \A index \in Keys :
                (pc[p] = "idle" /\ pc'[p] # "idle" /\ req'[p].op = "store"
                                /\ req'[p].index = index /\ UniqueViolation(strings, index))
                    => /\ pc'[p] = "store_updated" /\ lock' = p
                       /\ RowsOf(txn'[p], index) # {}
          /\ (pc[p] = "store_updated" /\ pc'[p] # "store_updated") =>
                /\ ~ret'.raised /\ ret'.call = req[p]
                /\ ret'.value.action = "updated"
                /\ \E r \in strings' : r.index_key = req[p].index /\ r.data = req[p].data
          /\ ret'.raised => ret'.value.error = "database is locked"]_vars

\* C14 witness: a store_string of "x" whose INSERT hit the constraint has
\* returned 'updated' at a later second than the insert, while a delete_string
\* on its key has passed its existence check.
C14_Witness ==
    /\ ret.call.op = "store" /\ ~ret.raised /\ ret.value.action = "updated"
    /\ ret.call.data = <<"x">> /\ now = 1
    /\ \E r \in strings : r.index_key = ret.call.index /\ r.created_at = 0 /\ r.updated_at = 1
    /\ \E q \in Procs : pc[q] = "delete_delete" /\ req[q].index = ret.call.index

\* C15: a step in which a call ends by raising leaves the table as it was,
\* leaves nothing of the call pending (no uncommitted rows, no lock) and is
\* answered as a failure, not with a value; and the table changes only in the
\* commit of a call that returns normally, by that call's whole change to
\* the row of its one key.
C15_FaultAtomic ==
    [][/\ ret'.raised =>
            /\ strings' = strings /\ seq' = seq
            /\ Status(ret') = 500 /\ "error" \in DOMAIN ret'.value
            /\ \A p \in Procs : pc'[p] = "idle" => txn'[p] = {} /\ lock' # p
       /\ strings' # strings =>
            \E p \in Procs :
                /\ StoreCreates(p) \/ StoreUpdates(p) \/ DeleteCommits(p)
                /\ ~ret'.raised /\ ret'.call = req[p]
                /\ strings' = txn[p]
                /\ \A k \in Keys \ {req[p].index} : RowsOf(strings', k) = RowsOf(strings, k)
                /\ Cardinality(RowsOf(strings', req[p].index)) =
                      IF DeleteCommits(p) THEN 0 ELSE 1]_vars

\* C15 witness: a delete_string has ended by raising after its DELETE, and the
\* row it was deleting and the row of another key are in the table.
C15_Witness ==
    /\ ret.call.op = "delete" /\ ret.raised /\ lock = NoProc
    /\ \A p \in Procs : pc[p] = "idle" /\ txn[p] = {}
    /\ RowsOf(strings, ret.call.index) # {}
    /\ Cardinality(strings) = 2

\* C16: a route answers 400 exactly for a request with an invalid parameter:
\* /store without index, or without data, or with empty data; /get and
\* /delete without index.  Such a request changes nothing and starts no
\* DatabaseManager call; every other request reaches the DatabaseManager, the
\* empty string being an index like any other.
C16_BadRequest ==
    [][/\ ret'.call.op = "rejected" =>
            /\ Status(ret') = 400
            /\ UNCHANGED <<strings, seq, now, lock, pc, req, txn, loc, lastMut, deleted, writes>>
            /\ \/ ~ret'.call.args.index.present
               \/ /\ ret'.call.route = "store"
                  /\ \/ ~ret'.call.args.data.present
                     \/ ret'.call.args.data.value = <<>>
       /\ ret'.call.op \in {"store", "get", "delete"} =>
            /\ Status(ret') # 400
            /\ ret'.call.index \in Keys
            /\ ret'.call.op = "store" => ret'.call.data \in Values
       /\ \A p \in Procs : req'[p].op = "store" => req'[p].data # <<>>
       /\ \A r \in strings' : r.data # <<>>]_vars

\* C16 witness: /store without data has just been answered 400 while the
\* table holds a row stored under the empty string as its index.
C16_Witness ==
    /\ ret.call.op = "rejected" /\ ret.call.route = "store"
    /\ ret.call.args.index.present /\ ~ret.call.args.data.present
    /\ \E r \in strings : r.index_key = ""

\* C17: for a request with valid parameters /store answers 201 exactly when
\* the key had no row and 200 exactly when it overwrote the key's row; /get
\* answers 200 when the key has a row and 404 when it has none; /delete
\* answers 200 when delete_string returned true, its DELETE committed and no
\* row of the key left, and 404 when it found no row; and each answers 500
\* exactly when the DatabaseManager call raised.
C17_StatusMapping ==
    [][/\ \A p \in Procs :
            /\ StoreCreates(p) => Status(ret') = 201 /\ RowsOf(strings, req[p].index) = {}
            /\ StoreUpdates(p) => Status(ret') = 200 /\ RowsOf(strings, req[p].index) # {}
            /\ DeleteCommits(p) => /\ Status(ret') = 200
                                   /\ RowsOf(strings', req[p].index) = {}
       /\ (ret'.call.op = "store" /\ ~ret'.raised) =>
            \E p \in Procs : StoreCreates(p) \/ StoreUpdates(p)
       /\ ret'.call.op = "get" =>
            /\ RowsOf(strings', ret'.call.index) # {} => Status(ret') = 200
            /\ RowsOf(strings', ret'.call.index) = {} => Status(ret') = 404
       /\ (ret'.call.op = "delete" /\ ~ret'.raised) =>
            /\ ret'.value.ok => Status(ret') = 200 /\ \E p \in Procs : DeleteCommits(p)
            /\ ~ret'.value.ok => /\ Status(ret') = 404
                                 /\ RowsOf(strings, ret'.call.index) = {}
                                 /\ strings' = strings
       /\ ret'.call.op \in {"store", "get", "delete"} =>
            (Status(ret') = 500 <=> ret'.raised)]_vars

\* C17 witness: /delete has just been answered 404 for a key whose row an
\* earlier /delete removed.
C17_Witness ==
    /\ ret.call.op = "delete" /\ ~ret.raised /\ Status(ret) = 404
    /\ deleted[ret.call.index] /\ RowsOf(strings, ret.call.index) = {}

\* C18: every DatabaseManager call has closed the connection it opened by the
\* time it exits, whether it returns or raises.
C18_ConnectionsClosed ==
    ret.call.op \in {"store", "get", "delete", "list", "stats"} => ret.closed

\* C18 witness: a store_string has ended by raising 'database is locked'
\* with its connection left open, while the other connection holds the lock.
C18_Witness ==
    /\ ret.call.op = "store" /\ ret.raised /\ ~ret.closed
    /\ lock # NoProc

\* What holds of the connections: a call that returns has closed its
\* connection, and a call that raises has not.
ClosedUnlessRaised ==
    ret.call.op \in {"store", "get", "delete", "list", "stats"} => (ret.closed <=> ~ret.raised)

\* C19: a delete_string call returns true only if its own DELETE removed a
\* row; so of several delete_string calls on one existing key whose existence
\* checks and DELETEs interleave, one returns true and the others false.
C19_DeleteTrueOnlyIfRemoved ==
    [][\A p \in Procs :
          DeleteCommits(p) => (ret'.value.ok => RowsOf(strings, req[p].index) # {})]_vars

\* C19 witness: two delete_string calls on one key have both passed the
\* existence check; one has run its DELETE, the other has yet to.
C19_Witness ==
    \E p, q \in Procs :
        /\ pc[p] = "delete_commit" /\ pc[q] = "delete_delete"
        /\ req[p].index = req[q].index
        /\ RowsOf(strings, req[p].index) # {}

\* What holds of a delete_string that returns true: no row of its key is left,
\* and a row of the key was there at its existence check or some later time
\* (the key was stored by a call that has completed).
DeleteTrueLeavesNoRow ==
    [][\A p \in Procs :
          DeleteCommits(p) => /\ ret'.value.ok
                              /\ RowsOf(strings', req[p].index) = {}
                              /\ lastMut[req[p].index].op # "none"]_vars

\* C20: every result of get_statistics, whatever commits between its three
\* queries, has latest_record exactly when its total_records is greater than
\* 0 (so the latest_record key is among the records counted), and
\* total_data_size 0 whenever total_records is 0.
C20_StatsConsistent ==
    ret.call.op = "stats" =>
        /\ ret.value.has_latest <=> ret.value.total_records > 0
        /\ ret.value.total_records = 0 => ret.value.total_data_size = 0

\* C20 witness: a get_statistics during which a store_string committed
\* returns total_records 0 together with a latest_record.
C20_Witness ==
    /\ ret.call.op = "stats" /\ ~ret.call.quiet
    /\ ret.value.total_records = 0 /\ ret.value.has_latest
    /\ Cardinality(strings) = 1
====
